---- MODULE Spec2Model ----
(***************************************************************************)
(* Model of tion_btle/tion.py: the class tion (driver of a Tion breezer    *)
(* over a bleak BLE client), its retry wrapper _do_action, the primitives  *)
(* _connect, _disconnect, _try_write, _enable_notifications, the          *)
(* fan_speed property, the functions _process_status and                   *)
(* decode_temperature, the template of get, and the notification sink      *)
(* TionDelegation.                                                         *)
(*                                                                         *)
(* The coroutines of the driver are cut at their await points: one action  *)
(* of the model is the code that runs between two awaits.  Every caller    *)
(* (a task that invokes a method of the driver) has a frame, call[c],      *)
(* that holds the locals of the coroutine it runs.                         *)
(***************************************************************************)
EXTENDS Integers, Sequences, FiniteSets, TLC

VARIABLES mac, connected, fan_speed, assigned, call

\* the driver: tion
driver_vars == <<mac, connected, fan_speed, assigned, call>>

\* the arguments and the results of _process_status and decode_temperature
VARIABLES code, status, raw, temperature

pure_vars == <<code, status, raw, temperature>>

\* the notification sink, TionDelegation, and the history of its use
VARIABLES _have_new_data, _data, notified, unread, reads, returned,
          read_tags, dropped, sink_op, peeked

sink_vars == <<_have_new_data, _data, notified, unread, reads, returned,
               read_tags, dropped, sink_op, peeked>>

vars == <<driver_vars, pure_vars, sink_vars>>

(***************************************************************************)
(* Bounds of the model.                                                    *)
(***************************************************************************)
\* the largest max_tries a caller passes to _do_action
MaxTries == 3
\* new_speed ranges over -SpeedSlack .. MAX_FAN + SpeedSlack
SpeedSlack == 2

\* tasks that use the one driver object
Callers == {1, 2}
\* the addresses a driver is constructed with
Macs == {"dummy", "aa:bb"}
\* the requests (bytearrays) a caller writes
Requests == {<<1>>, <<61, 165>>}
\* the max_tries a caller passes: also none and less than none
TriesRange == (-1)..MaxTries

(***************************************************************************)
(* Program constants.                                                      *)
(***************************************************************************)
\* if 0 <= new_speed <= 6
MinFanSpeed == 0
MaxFanSpeed == 6
\* self._fan_speed = 1 in the else branch of the setter
FallbackFanSpeed == 1

(***************************************************************************)
(* Exceptions.  bleak's calls raise exc.BleakError, or asyncio.TimeoutError *)
(* (an Exception that is not a BleakError); a task that is cancelled gets   *)
(* asyncio.CancelledError at the await it is suspended in, and that is a    *)
(* BaseException which is not an Exception.                                 *)
(***************************************************************************)
ExcKinds == {"BleakError", "TimeoutError", "CancelledError"}

\* isinstance(e, Exception): what "except Exception as e" catches
IsException(e) == e \in {"BleakError", "TimeoutError"}

\* isinstance(e, exc.BleakError): what "except exc.BleakError as e" catches
IsBleakError(e) == e = "BleakError"

(***************************************************************************)
(* bytes(request).hex()                                                    *)
(***************************************************************************)
HexDigit == <<"0", "1", "2", "3", "4", "5", "6", "7",
              "8", "9", "a", "b", "c", "d", "e", "f">>

RECURSIVE hex(_)
hex(bs) ==
    IF bs = <<>> THEN ""
    ELSE HexDigit[(Head(bs) \div 16) + 1] \o HexDigit[(Head(bs) % 16) + 1]
         \o hex(Tail(bs))

(***************************************************************************)
(* The actions handed to _do_action, by their __name__.                    *)
(***************************************************************************)
Actions == {"_connect", "_try_write", "_enable_notifications"}

\* the message of the while-else branch of _do_action
ErrorMessageNoConnect(name, address, request) ==
    IF name = "__try_write" THEN "Could not write request + " \o hex(request)
    ELSE IF name = "__try_get_state" THEN "Could not get updated state"
    ELSE "Could not do " \o name

ErrorMessage(name, address, request) ==
    IF name = "_connect" THEN "Could not connect to " \o address
    ELSE IF name = "__try_write" THEN "Could not write request + " \o hex(request)
    ELSE IF name = "__try_get_state" THEN "Could not get updated state"
    ELSE "Could not do " \o name

(***************************************************************************)
(* fan_speed.setter: the value stored for new_speed                        *)
(***************************************************************************)
FanSpeedStoredClamped(new_speed) ==
    IF new_speed < MinFanSpeed THEN MinFanSpeed
    ELSE IF new_speed > MaxFanSpeed THEN MaxFanSpeed
    ELSE new_speed

FanSpeedStored(new_speed) ==
    IF MinFanSpeed <= new_speed /\ new_speed <= MaxFanSpeed
    THEN new_speed
    ELSE FallbackFanSpeed

(***************************************************************************)
(* The frame of a caller: the locals of _do_action (action, max_tries,     *)
(* tries, kwargs['request'], response), the position in the code (pc, and  *)
(* ret: where the coroutine that runs returns to), what the caller gets    *)
(* (outcome, result, exc and the two fields of a TionException), and the   *)
(* history of the call: loop iterations begun (attempts), invocations of   *)
(* the action (invoked) and of _connect (nconnect), warnings the wrapper   *)
(* logged (warnings), attempts whose ensure-connected step failed          *)
(* (ensureFails), invocations of the action that raised (actionFails) and  *)
(* that returned (succeeded, with the value returned: actionValue),        *)
(* whether _connect returned in this attempt (ensured), time.sleep(2)      *)
(* calls (sleeps) and the calls made on self._btle (tcalls).  For get:     *)
(* its argument keep_connection and the operations it has begun (steps).   *)
(* For _connect: the state of the transport when is_connected() was asked  *)
(* (linked).                                                               *)
(***************************************************************************)
Idle ==
    [op |-> "idle", pc |-> "idle", ret |-> "top",
     action |-> "none", max_tries |-> 0, tries |-> 0, request |-> <<>>,
     response |-> "unset",
     outcome |-> "none", result |-> "unset", exc |-> "none",
     expression |-> "none", message |-> "",
     attempts |-> 0, invoked |-> 0, nconnect |-> 0, warnings |-> 0,
     ensureFails |-> 0, actionFails |-> 0, succeeded |-> 0,
     actionValue |-> "unset",
     ensured |-> FALSE, sleeps |-> 0, tcalls |-> <<>>,
     keep_connection |-> FALSE, steps |-> <<>>, linked |-> FALSE]

\* the call of a method of self._btle, as the frame records it
BtleCall(s, name) == [s EXCEPT !.tcalls = Append(@, name)]

\* the top-level coroutine returns r to its caller
ReturnValue(s, r) ==
    [s EXCEPT !.pc = "done", !.outcome = "returned", !.result = r]

\* the exception e leaves the top-level coroutine
Raise(s, e) ==
    [s EXCEPT !.pc = "done", !.outcome = "raised", !.exc = e]

\* raise TionException(action.__name__, message)
RaiseTionExceptionByStep(s, address) ==
    LET name == IF s.ensureFails > 0 THEN "_connect" ELSE s.action
    IN  [s EXCEPT !.pc = "done", !.outcome = "raised",
                  !.exc = "TionException", !.expression = name,
                  !.message = ErrorMessage(name, address, s.request)]

RaiseTionException(s, address) ==
    [s EXCEPT !.pc = "done", !.outcome = "raised", !.exc = "TionException",
              !.expression = s.action,
              !.message = ErrorMessage(s.action, address, s.request)]

\* except Exception as e: tries += 1; _LOGGER.warning(...)
do_action_exceptBleakOnly(s, e) ==
    IF IsBleakError(e)
    THEN [s EXCEPT !.tries = @ + 1, !.warnings = @ + 1, !.pc = "w_loop"]
    ELSE Raise(s, e)

do_action_except(s, e) ==
    IF IsException(e)
    THEN [s EXCEPT !.tries = @ + 1, !.warnings = @ + 1, !.pc = "w_loop"]
    ELSE Raise(s, e)

\* response = await action(...) returned r; break; return response
do_action_breakMissing(s, r) ==
    [s EXCEPT !.response = r, !.tries = @ + 1, !.pc = "w_loop"]

do_action_break(s, r) ==
    ReturnValue([s EXCEPT !.response = r], r)

\* response = await action(*args, **kwargs): the action's coroutine starts
EnterAction(s) ==
    [s EXCEPT !.invoked = @ + 1, !.ret = "w_action",
              !.nconnect = IF s.action = "_connect" THEN @ + 1 ELSE @,
              !.pc = CASE s.action = "_connect" -> "c_enter"
                       [] s.action = "_try_write" -> "tw"
                       [] OTHER -> "en"]

\* if action.__name__ != '_connect': await self._connect()
NeedsConnectAlways(name) == TRUE

NeedsConnect(name) == name # "_connect"

\* while tries < max_tries
LoopCondAtLeastOnce(s) == s.tries < s.max_tries \/ s.attempts = 0

LoopCondInclusive(s) == s.tries <= s.max_tries

LoopCond(s) == s.tries < s.max_tries

\* one evaluation of the while condition, up to the first await of the body
do_action_loop(s, address) ==
    IF LoopCond(s)
    THEN LET t == [s EXCEPT !.attempts = @ + 1, !.ensured = FALSE]
         IN  IF NeedsConnect(s.action)
             THEN [t EXCEPT !.nconnect = @ + 1, !.ret = "w_ensure",
                            !.pc = "c_enter"]
             ELSE EnterAction(t)
    ELSE RaiseTionException(s, address)

(***************************************************************************)
(* get(keep_connection), which tion declares and the device families       *)
(* implement: connect, _send_request(_encode_request(status query)),       *)
(* _decode_response, then _disconnect unless keep_connection.              *)
(***************************************************************************)
\* _encode_request(request), _send_request(request), _decode_response(response)
_encode_request(request) == "encoded(" \o request \o ")"

ResponseTo(request) == "response(" \o request \o ")"

_decode_response(response) == "decoded(" \o response \o ")"

\* connect returned: get sends the encoded status query
get_after_connect(s) ==
    [s EXCEPT !.steps = Append(@, "send_request"), !.pc = "g_send"]

\* _send_request returned the response r: decode it, then disconnect
\* unless keep_connection
get_after_send(s, r) ==
    LET t == [s EXCEPT !.steps = Append(@, "decode_response"),
                       !.response = _decode_response(r)]
    IN  IF s.keep_connection
        THEN ReturnValue(t, t.response)
        ELSE [t EXCEPT !.steps = Append(@, "disconnect"),
                       !.ret = "g_disconnect", !.pc = "d_status"]

\* the coroutine that runs ends, with the exception e ("none": it returns r)
Complete(s, e, r, address) ==
    CASE s.ret = "top" ->
           IF e = "none" THEN ReturnValue(s, r) ELSE Raise(s, e)
      [] s.ret = "g_connect" ->
           IF e = "none" THEN get_after_connect(s) ELSE Raise(s, e)
      [] s.ret = "g_disconnect" ->
           IF e = "none" THEN ReturnValue(s, s.response) ELSE Raise(s, e)
      [] s.ret = "w_ensure" ->
           IF e = "none"
           THEN EnterAction([s EXCEPT !.ensured = TRUE])
           ELSE do_action_except([s EXCEPT !.ensureFails = @ + 1], e)
      [] OTHER ->
           IF e = "none"
           THEN do_action_break([s EXCEPT !.succeeded = @ + 1,
                                          !.actionValue = r], r)
           ELSE do_action_except([s EXCEPT !.actionFails = @ + 1], e)

\* the connection_status property
connection_statusAlwaysDisc(isConnected) == "disc"

connection_status(isConnected) == IF isConnected THEN "connected" ELSE "disc"

\* mac == "dummy" in _connect and _try_write
IsDummyNever(address) == FALSE

IsDummy(address) == address = "dummy"

(***************************************************************************)
(* State after tion.__init__(mac)                                          *)
(***************************************************************************)
DriverInit ==
    /\ connected = FALSE
    /\ fan_speed = 0
    /\ assigned = <<>>
    /\ call = [c \in Callers |-> Idle]

\* TionDelegation.__init__: no data, an empty bytearray
NoFrame == [tag |-> 0, bytes |-> <<>>]

SinkInit ==
    /\ _have_new_data = FALSE
    /\ _data = NoFrame
    /\ notified = <<>>
    /\ unread = 0
    /\ reads = 0
    /\ returned = <<>>
    /\ read_tags = {}
    /\ dropped = {}
    /\ sink_op = "__init__"
    /\ peeked = <<>>

\* no call of _process_status or decode_temperature was made
PureRest ==
    /\ code = 0
    /\ status = <<>>
    /\ raw = 0
    /\ temperature = <<>>

Init ==
    /\ mac \in Macs
    /\ DriverInit
    /\ SinkInit
    /\ PureRest

Step(c, s) == call' = [call EXCEPT ![c] = s]

(***************************************************************************)
(* A caller starts an operation of the driver.  The driver has one logical *)
(* thread of control: a caller issues an operation when no operation of    *)
(* another caller is under way.                                            *)
(***************************************************************************)
OneAtATime(c) == \A d \in Callers \ {c} : call[d].op = "idle"

\* await self._do_action(action, max_tries, request=request)
Call_do_action(c) ==
    /\ call[c].op = "idle"
    /\ OneAtATime(c)
    /\ \E a \in Actions, m \in TriesRange :
         \E r \in (IF a = "_try_write" THEN Requests ELSE {<<>>}) :
            Step(c, [Idle EXCEPT !.op = "_do_action", !.pc = "w_loop",
                                 !.action = a, !.max_tries = m,
                                 !.request = r])
    /\ UNCHANGED <<pure_vars, sink_vars, mac, connected, fan_speed, assigned>>

\* await self._connect()
Call_connect(c) ==
    /\ call[c].op = "idle"
    /\ OneAtATime(c)
    /\ Step(c, [Idle EXCEPT !.op = "_connect", !.pc = "c_enter",
                            !.nconnect = 1])
    /\ UNCHANGED <<pure_vars, sink_vars, mac, connected, fan_speed, assigned>>

\* await self._disconnect()
Call_disconnect(c) ==
    /\ call[c].op = "idle"
    /\ OneAtATime(c)
    /\ Step(c, [Idle EXCEPT !.op = "_disconnect", !.pc = "d_status"])
    /\ UNCHANGED <<pure_vars, sink_vars, mac, connected, fan_speed, assigned>>

\* await self._try_write(request)
Call_try_write(c) ==
    /\ call[c].op = "idle"
    /\ OneAtATime(c)
    /\ \E r \in Requests :
         Step(c, [Idle EXCEPT !.op = "_try_write", !.pc = "tw",
                              !.request = r])
    /\ UNCHANGED <<pure_vars, sink_vars, mac, connected, fan_speed, assigned>>

\* self.get(keep_connection)
Call_get(c) ==
    /\ call[c].op = "idle"
    /\ OneAtATime(c)
    /\ \E keep \in BOOLEAN :
          Step(c, [Idle EXCEPT !.op = "get", !.keep_connection = keep,
                               !.steps = <<"connect">>, !.nconnect = 1,
                               !.ret = "g_connect", !.pc = "c_enter"])
    /\ UNCHANGED <<pure_vars, sink_vars, mac, connected, fan_speed, assigned>>

\* _send_request(_encode_request(status query)) returns the response of the
\* device, which takes a connected transport or a dummy, or it raises
get_send_request(c) ==
    /\ call[c].pc = "g_send"
    /\ \/ /\ connected \/ IsDummy(mac)
          /\ Step(c, get_after_send(call[c],
                                     ResponseTo(_encode_request("status"))))
       \/ \E e \in ExcKinds : Step(c, Raise(call[c], e))
    /\ UNCHANGED <<pure_vars, sink_vars, mac, connected, fan_speed, assigned>>

\* the caller has its result or its exception; the frame is gone
Finish(c) ==
    /\ call[c].pc = "done"
    /\ Step(c, Idle)
    /\ UNCHANGED <<pure_vars, sink_vars, mac, connected, fan_speed, assigned>>

(***************************************************************************)
(* _do_action: the while test, to the first await of the iteration         *)
(***************************************************************************)
do_action(c) ==
    /\ call[c].pc = "w_loop"
    /\ Step(c, do_action_loop(call[c], mac))
    /\ UNCHANGED <<pure_vars, sink_vars, mac, connected, fan_speed, assigned>>

(***************************************************************************)
(* _connect                                                                *)
(***************************************************************************)
\* the dummy test and "await self.connection_status"
connect_status(c) ==
    /\ call[c].pc = "c_enter"
    /\ IF IsDummy(mac)
       THEN Step(c, Complete(call[c], "none", "None", mac))
       ELSE LET s == [BtleCall(call[c], "is_connected")
                        EXCEPT !.linked = connected]
            IN  IF connection_status(connected) = "disc"
                THEN Step(c, [s EXCEPT !.pc = "c_connect"])
                ELSE Step(c, Complete(s, "none", "None", mac))
    /\ UNCHANGED <<pure_vars, sink_vars, mac, connected, fan_speed, assigned>>

\* await self._btle.connect(), and the except clause around it
connect_btleIfStillDisc(c) ==
    /\ call[c].pc = "c_connect"
    /\ ~connected
    /\ LET s == BtleCall(call[c], "connect")
       IN  \/ /\ connected' = TRUE
              /\ Step(c, Complete(s, "none", "None", mac))
           \/ /\ \E e \in ExcKinds :
                    Step(c, Complete(IF IsBleakError(e)
                                     THEN [s EXCEPT !.sleeps = @ + 1]
                                     ELSE s, e, "None", mac))
              /\ UNCHANGED connected
    /\ UNCHANGED <<pure_vars, sink_vars, mac, fan_speed, assigned>>

connect_btle(c) ==
    /\ call[c].pc = "c_connect"
    /\ LET s == BtleCall(call[c], "connect")
       IN  \/ /\ connected' = TRUE
              /\ Step(c, Complete(s, "none", "None", mac))
           \/ /\ \E e \in ExcKinds :
                    Step(c, Complete(IF IsBleakError(e)
                                     THEN [s EXCEPT !.sleeps = @ + 1]
                                     ELSE s, e, "None", mac))
              /\ UNCHANGED connected
    /\ UNCHANGED <<pure_vars, sink_vars, mac, fan_speed, assigned>>

(***************************************************************************)
(* _disconnect                                                             *)
(***************************************************************************)
\* await self.connection_status, and the test of the address
disconnect_status(c) ==
    /\ call[c].pc = "d_status"
    /\ LET s == BtleCall(call[c], "is_connected")
       IN  IF connection_status(connected) # "disc" /\ mac # "dummy"
           THEN Step(c, [s EXCEPT !.pc = "d_btle"])
           ELSE Step(c, Complete(s, "none", "None", mac))
    /\ UNCHANGED <<pure_vars, sink_vars, mac, connected, fan_speed, assigned>>

\* await self._btle.disconnect()
disconnect_btle(c) ==
    /\ call[c].pc = "d_btle"
    /\ LET s == BtleCall(call[c], "disconnect")
       IN  \/ /\ connected' = FALSE
              /\ Step(c, Complete(s, "none", "None", mac))
           \/ /\ \E e \in ExcKinds : Step(c, Complete(s, e, "None", mac))
              /\ UNCHANGED connected
    /\ UNCHANGED <<pure_vars, sink_vars, mac, fan_speed, assigned>>

(***************************************************************************)
(* _try_write                                                              *)
(***************************************************************************)
\* await self._btle.write_gatt_char(self.uuid_write, request, False)
try_write(c) ==
    /\ call[c].pc = "tw"
    /\ IF ~IsDummy(mac)
       THEN LET s == BtleCall(call[c], "write_gatt_char")
            IN  \/ /\ connected
                   /\ Step(c, Complete(s, "none", "None", mac))
                \/ \E e \in ExcKinds : Step(c, Complete(s, e, "None", mac))
       ELSE Step(c, Complete(call[c], "none", "dummy write", mac))
    /\ UNCHANGED <<pure_vars, sink_vars, mac, connected, fan_speed, assigned>>

(***************************************************************************)
(* _enable_notifications                                                   *)
(***************************************************************************)
\* await self._btle.start_notify(self.uuid_notify, handleNotification)
enable_notifications(c) ==
    /\ call[c].pc = "en"
    /\ LET s == BtleCall(call[c], "start_notify")
       IN  \/ /\ connected
              /\ Step(c, Complete(s, "none", "None", mac))
           \/ \E e \in ExcKinds : Step(c, Complete(s, e, "None", mac))
    /\ UNCHANGED <<pure_vars, sink_vars, mac, connected, fan_speed, assigned>>

(***************************************************************************)
(* fan_speed.setter                                                        *)
(***************************************************************************)
set_fan_speed ==
    /\ \E new_speed \in (MinFanSpeed - SpeedSlack)..(MaxFanSpeed + SpeedSlack) :
          /\ fan_speed' = FanSpeedStored(new_speed)
          /\ assigned' = <<new_speed>>
    /\ UNCHANGED <<pure_vars, sink_vars, mac, connected, call>>

Next ==
    \/ \E c \in Callers : Call_do_action(c)
    \/ \E c \in Callers : Call_connect(c)
    \/ \E c \in Callers : Call_disconnect(c)
    \/ \E c \in Callers : Call_try_write(c)
    \/ \E c \in Callers : Call_get(c)
    \/ \E c \in Callers : get_send_request(c)
    \/ \E c \in Callers : Finish(c)
    \/ \E c \in Callers : do_action(c)
    \/ \E c \in Callers : connect_status(c)
    \/ \E c \in Callers : connect_btle(c)
    \/ \E c \in Callers : disconnect_status(c)
    \/ \E c \in Callers : disconnect_btle(c)
    \/ \E c \in Callers : try_write(c)
    \/ \E c \in Callers : enable_notifications(c)
    \/ set_fan_speed

Spec == Init /\ [][Next]_vars

TypeOK ==
    /\ mac \in Macs
    /\ connected \in BOOLEAN
    /\ fan_speed \in Int
    /\ \A c \in Callers : call[c].tries \in 0..MaxTries

(***************************************************************************)
(* The event loop runs every coroutine that can run, and every call on the *)
(* transport ends (it returns or it raises).                               *)
(***************************************************************************)
Run(c) ==
    \/ do_action(c)
    \/ connect_status(c)
    \/ connect_btle(c)
    \/ disconnect_status(c)
    \/ disconnect_btle(c)
    \/ try_write(c)
    \/ enable_notifications(c)
    \/ get_send_request(c)

FairSpec == Spec /\ \A c \in Callers : WF_vars(Run(c))

\* the frames of the calls of _do_action
InDoAction(c) == call[c].op = "_do_action"

\* the call of _do_action has ended: the caller has a result or an exception
Ended(c) == call[c].pc = "done"

\* the call ended with the TionException of the while-else branch
RaisedTionException(c) ==
    /\ Ended(c)
    /\ call[c].outcome = "raised"
    /\ call[c].exc = "TionException"

(***************************************************************************)
(* C1: in _do_action the first attempt on which the action returns ends    *)
(* the loop: the wrapper returns the value of that invocation and invokes  *)
(* the action no more (one invocation more than the invocations that       *)
(* raised); an action that raises on attempts 1 and 2 and returns on       *)
(* attempt 3, max_tries = 3, gives its value after 3 invocations and 2     *)
(* warnings of the wrapper.                                                *)
(***************************************************************************)
C1_FirstSuccessEndsLoop ==
    \A c \in Callers :
       InDoAction(c) =>
          LET s == call[c]
          IN  /\ s.succeeded <= 1
              /\ s.succeeded = 1 =>
                    /\ Ended(c)
                    /\ s.outcome = "returned"
                    /\ s.result = s.actionValue
                    /\ s.invoked = s.actionFails + 1
                    /\ s.warnings = s.attempts - 1
              /\ s.outcome = "returned" => s.succeeded = 1
              /\ (s.outcome = "returned" /\ s.max_tries = 3
                    /\ s.actionFails = 2) =>
                    (s.invoked = 3 /\ s.warnings = 2)

C1_Witness ==
    \E c \in Callers :
       /\ InDoAction(c)
       /\ call[c].max_tries = 3
       /\ call[c].action = "_try_write"
       /\ call[c].actionFails = 2
       /\ call[c].outcome = "returned"
       /\ call[c].result = "None"
       /\ call[c].invoked = 3
       /\ call[c].warnings = 2

(***************************************************************************)
(* C2: for max_tries >= 1, _do_action begins at most max_tries attempts    *)
(* and ends; when every attempt failed (max_tries warnings) it ends with   *)
(* the TionException, raised after max_tries attempts, none of which       *)
(* succeeded, and whose expression is the name of the action.              *)
(***************************************************************************)
C2_Bounded(c) ==
    LET s == call[c]
    IN  (InDoAction(c) /\ s.max_tries >= 1) =>
           /\ s.attempts <= s.max_tries
           /\ s.tries <= s.max_tries
           /\ RaisedTionException(c) =>
                 /\ s.attempts = s.max_tries
                 /\ s.warnings = s.max_tries
                 /\ s.succeeded = 0
                 /\ s.expression = s.action
           /\ s.warnings = s.max_tries =>
                 /\ s.pc \in {"w_loop", "done"}
                 /\ Ended(c) => RaisedTionException(c)

C2_AtMostMaxTriesThenTionException ==
    /\ [](\A c \in Callers : C2_Bounded(c))
    /\ \A c \in Callers : InDoAction(c) ~> Ended(c)

C2_Witness ==
    \E c \in Callers :
       /\ RaisedTionException(c)
       /\ InDoAction(c)
       /\ call[c].max_tries = 2
       /\ call[c].attempts = 2
       /\ call[c].expression = "_enable_notifications"

\* every attempt of the call was begun and failed
AllAttemptsFailed(c) ==
    /\ RaisedTionException(c)
    /\ InDoAction(c)
    /\ call[c].max_tries >= 1
    /\ call[c].attempts = call[c].max_tries

(***************************************************************************)
(* C3: when _try_write fails on all attempts of _do_action the message of  *)
(* the TionException is the one of the write, with the hex of the request  *)
(* ("Could not write request + <hex>" as the code spells it), not the      *)
(* generic one.                                                            *)
(***************************************************************************)
C3_WriteMessage ==
    \A c \in Callers :
       (AllAttemptsFailed(c) /\ call[c].action = "_try_write") =>
          call[c].message \in
             {"Could not write request + " \o hex(call[c].request),
              "Could not write request " \o hex(call[c].request)}

(***************************************************************************)
(* C4: when _connect is the action of _do_action and fails on all attempts *)
(* the TionException has the message "Could not connect to <mac>" and the  *)
(* expression "_connect".                                                  *)
(***************************************************************************)
C4_ConnectMessage ==
    \A c \in Callers :
       (AllAttemptsFailed(c) /\ call[c].action = "_connect") =>
          /\ call[c].message = "Could not connect to " \o mac
          /\ call[c].expression = "_connect"

C4_Witness ==
    \E c \in Callers :
       /\ AllAttemptsFailed(c)
       /\ call[c].action = "_connect"
       /\ call[c].actionFails = 3
       /\ call[c].message = "Could not connect to aa:bb"

\* _connect failed in every attempt of the call, as the ensure-connected
\* step or as the action
ConnectFailedEveryAttempt(c) ==
    /\ AllAttemptsFailed(c)
    /\ call[c].max_tries =
          call[c].ensureFails
          + (IF call[c].action = "_connect" THEN call[c].actionFails ELSE 0)

C6_ResultOrTionException ==
    \A c \in Callers :
       (InDoAction(c) /\ Ended(c)) =>
          \/ call[c].outcome = "returned" /\ call[c].succeeded = 1
          \/ RaisedTionException(c)

(***************************************************************************)
(* C6, amended: a call of _do_action ends with the result of the action    *)
(* returned, with a TionException, or with an exception of the action or   *)
(* of the ensure-connected step that is not an Exception (CancelledError): *)
(* no Exception of either leaves the wrapper, each is counted in tries and *)
(* logged, and no call returns without a result of the action.             *)
(***************************************************************************)
C6_ResultOrTionExceptionOrBase ==
    \A c \in Callers :
       InDoAction(c) =>
          /\ Ended(c) =>
                \/ /\ call[c].outcome = "returned"
                   /\ call[c].succeeded = 1
                   /\ call[c].result = call[c].actionValue
                \/ RaisedTionException(c)
                \/ /\ call[c].outcome = "raised"
                   /\ call[c].exc = "CancelledError"
          /\ call[c].exc \notin {"BleakError", "TimeoutError"}
          /\ call[c].exc # "CancelledError" =>
                call[c].tries = call[c].ensureFails + call[c].actionFails

C6_Witness ==
    \E c \in Callers :
       /\ InDoAction(c)
       /\ Ended(c)
       /\ call[c].outcome = "raised"
       /\ call[c].exc = "CancelledError"
       /\ call[c].warnings = 1
       /\ call[c].ensureFails = 1

\* the call runs the _connect of its ensure-connected step
Ensuring(c) ==
    call[c].ret = "w_ensure" /\ call[c].pc \in {"c_enter", "c_connect"}

\* the call runs the coroutine of its action
RunningAction(c) ==
    call[c].ret = "w_action" /\ call[c].pc \in {"c_enter", "c_connect", "tw", "en"}

(***************************************************************************)
(* C7: in _do_action, for an action other than _connect every attempt      *)
(* calls _connect() once and first, and the action runs in an attempt only *)
(* after that _connect() returned in it: an attempt whose ensure-connected *)
(* step failed does not invoke the action and is counted in tries.  When   *)
(* the action is _connect, the wrapper calls _connect() once per attempt.  *)
(***************************************************************************)
C7_EnsureConnectedFirst ==
    \A c \in Callers :
       InDoAction(c) =>
          LET s == call[c]
          IN  /\ s.action # "_connect" =>
                    /\ s.nconnect = s.attempts
                    /\ RunningAction(c) => s.ensured
                    /\ s.invoked + s.ensureFails
                          + (IF Ensuring(c) THEN 1 ELSE 0) = s.attempts
                    /\ s.pc = "w_loop" =>
                          s.tries = s.ensureFails + s.actionFails
              /\ s.action = "_connect" =>
                    /\ s.nconnect = s.attempts
                    /\ s.invoked = s.attempts
                    /\ s.ensureFails = 0

C7_Witness ==
    \E c \in Callers :
       /\ InDoAction(c)
       /\ call[c].action = "_enable_notifications"
       /\ call[c].attempts = 2
       /\ call[c].ensureFails = 1
       /\ call[c].invoked = 1
       /\ call[c].ensured
       /\ call[c].pc = "en"
       /\ call[c].tcalls = <<"is_connected", "connect", "is_connected", "connect">>

\* the operation of the frame is _connect or _try_write, called by itself
\* or as the action of _do_action
ConnectOrWrite(c) ==
    \/ call[c].op \in {"_connect", "_try_write"}
    \/ InDoAction(c) /\ call[c].action \in {"_connect", "_try_write"}

(***************************************************************************)
(* C8: on a driver whose address is "dummy", _connect and _try_write make  *)
(* no call on the transport, whatever ran before; _try_write returns       *)
(* "dummy write", and _do_action(_try_write) returns it from its first     *)
(* attempt.                                                                *)
(***************************************************************************)
C8_DummyNoTransport ==
    mac = "dummy" =>
       \A c \in Callers :
          /\ ConnectOrWrite(c) => call[c].tcalls = <<>>
          /\ (call[c].op = "_try_write" /\ Ended(c)) =>
                (call[c].outcome = "returned" /\ call[c].result = "dummy write")
          /\ (call[c].op = "_connect" /\ Ended(c)) =>
                call[c].outcome = "returned"
          /\ (InDoAction(c) /\ call[c].action = "_try_write"
                /\ call[c].max_tries >= 1) =>
                /\ call[c].attempts <= 1
                /\ call[c].warnings = 0
                /\ Ended(c) =>
                      /\ call[c].outcome = "returned"
                      /\ call[c].result = "dummy write"
                      /\ call[c].attempts = 1

C8_Witness ==
    /\ mac = "dummy"
    /\ \E c \in Callers :
          /\ InDoAction(c)
          /\ call[c].action = "_try_write"
          /\ Ended(c)
          /\ call[c].result = "dummy write"
          /\ call[c].attempts = 1
          /\ call[c].nconnect = 1
          /\ call[c].tcalls = <<>>

(***************************************************************************)
(* C9: on a driver whose address is "dummy", _disconnect makes no call on  *)
(* the transport: neither disconnect nor is_connected.                     *)
(***************************************************************************)
C9_DummyDisconnectNoTransport ==
    mac = "dummy" =>
       \A c \in Callers :
          call[c].op = "_disconnect" => call[c].tcalls = <<>>

(***************************************************************************)
(* C10: the stored fan speed is in 0..6 in every state: 0 after            *)
(* construction, s after the assignment of an s in 0..6, and 1 after the   *)
(* assignment of an s below 0 or above 6.                                  *)
(***************************************************************************)
C10_FanSpeedInRange ==
    /\ fan_speed \in 0..6
    /\ assigned = <<>> => fan_speed = 0
    /\ assigned # <<>> =>
          /\ (0 <= assigned[1] /\ assigned[1] <= 6) => fan_speed = assigned[1]
          /\ (assigned[1] < 0 \/ assigned[1] > 6) => fan_speed = 1

C10_Witness ==
    /\ assigned # <<>>
    /\ assigned[1] > 6
    /\ fan_speed = 1

(***************************************************************************)
(* _process_status and decode_temperature: functions of their argument.    *)
(***************************************************************************)
\* the codes handed to _process_status: CodeSlack beyond both ends of the
\* indices Python takes, -len(statuses) .. len(statuses) - 1
CodeSlack == 2

\* statuses = ['off', 'on']
statuses == <<"off", "on">>

StatusCodes == (-Len(statuses) - CodeSlack)..(Len(statuses) - 1 + CodeSlack)

\* a raw temperature is one byte
RawBytes == 0..255

\* barrier = 0b10000000
barrier == 128

\* self.statuses[code]: a list takes the indices -len .. len - 1, a negative
\* one counts from the end; any other index raises IndexError
ListIndex(list, i) ==
    IF 0 <= i /\ i < Len(list)
    THEN [exc |-> "none", value |-> list[i + 1]]
    ELSE IF -Len(list) <= i /\ i < 0
    THEN [exc |-> "none", value |-> list[Len(list) + i + 1]]
    ELSE [exc |-> "IndexError"]

\* try: status = self.statuses[code]; except IndexError: status = 'unknown'
_process_status(c) ==
    LET item == ListIndex(statuses, c)
    IN  IF item.exc = "IndexError" THEN "unknown" ELSE item.value

\* if (raw < barrier): result = raw; else: result = -(~(result - barrier)
\* + barrier + 1), which reads the local result before any assignment to it
decode_temperatureReversed(r) ==
    IF r > barrier
    THEN [exc |-> "none", value |-> r]
    ELSE [exc |-> "UnboundLocalError"]

decode_temperature(r) ==
    IF r < barrier
    THEN [exc |-> "none", value |-> r]
    ELSE [exc |-> "UnboundLocalError"]

PureInit ==
    /\ mac = "dummy"
    /\ DriverInit
    /\ SinkInit
    /\ code \in StatusCodes
    /\ status = <<>>
    /\ raw \in RawBytes
    /\ temperature = <<>>

\* await self._process_status(code)
process_status ==
    /\ status = <<>>
    /\ status' = <<_process_status(code)>>
    /\ UNCHANGED <<driver_vars, sink_vars, code, raw, temperature>>

\* await self.decode_temperature(raw)
decode ==
    /\ temperature = <<>>
    /\ temperature' = <<decode_temperature(raw)>>
    /\ UNCHANGED <<driver_vars, sink_vars, code, raw, status>>

PureNext ==
    \/ process_status
    \/ decode

PureSpec == PureInit /\ [][PureNext]_vars

(***************************************************************************)
(* C11: _process_status(code) is the label at position code of             *)
(* ['off', 'on'] for the codes 0 and 1, and "unknown" for every other      *)
(* code, the negative ones too.                                            *)
(***************************************************************************)
C11_StatusLabel ==
    status # <<>> =>
       status[1] = (IF code = 0 THEN "off"
                    ELSE IF code = 1 THEN "on"
                    ELSE "unknown")

(***************************************************************************)
(* C12: decode_temperature(r) returns r for every byte r in 0..127.        *)
(***************************************************************************)
C12_DecodeNonNegative ==
    (temperature # <<>> /\ raw \in 0..127) =>
       /\ temperature[1].exc = "none"
       /\ temperature[1].value = raw

C12_Witness ==
    /\ temperature # <<>>
    /\ raw = 127
    /\ temperature[1] = [exc |-> "none", value |-> 127]

(***************************************************************************)
(* C13: decode_temperature(r) returns r - 256, and raises nothing, for     *)
(* every byte r in 128..255.                                               *)
(***************************************************************************)
C13_DecodeNegative ==
    (temperature # <<>> /\ raw \in 128..255) =>
       /\ temperature[1].exc = "none"
       /\ temperature[1].value = raw - 256

(***************************************************************************)
(* TionDelegation.  A frame is the bytearray of a notification with its    *)
(* identity, tag: the number of the notification that brought it (0: the   *)
(* bytearray of __init__).  The history of the sink: the payloads of the   *)
(* notifications so far (notified), the notifications (unread) and the     *)
(* reads of data (reads, 2: two or more) since the last read and the last  *)
(* notification, the value of the last read of data (returned) and of      *)
(* have_new_data (peeked), the tags that reads returned (read_tags) and    *)
(* the tags of the notifications that were not read when the next one came *)
(* (dropped).                                                              *)
(***************************************************************************)
\* the notifications of one run
MaxNotifications == 3

\* the payloads the transport pushes
Payloads == {<<1>>, <<2, 3>>}

\* self._data = data
StoreNotificationKeepUnread(old, flag, new) == IF flag THEN old ELSE new

StoreNotification(old, flag, new) == new

\* self._have_new_data = False, in the getter of data
FlagAfterReadKept(flag) == flag

FlagAfterRead(flag) == FALSE

\* return self._data: the getter leaves the buffer as it is
DataAfterReadCleared(d) == NoFrame

DataAfterRead(d) == d

SinkOnlyInit ==
    /\ mac = "dummy"
    /\ DriverInit
    /\ PureRest
    /\ SinkInit

\* handleNotification(handle, data)
handleNotification ==
    /\ Len(notified) < MaxNotifications
    /\ \E d \in Payloads :
          /\ _data' = StoreNotification(_data, _have_new_data,
                                        [tag |-> Len(notified) + 1, bytes |-> d])
          /\ notified' = Append(notified, d)
    /\ _have_new_data' = TRUE
    /\ unread' = unread + 1
    /\ reads' = 0
    /\ dropped' = IF Len(notified) >= 1 /\ Len(notified) \notin read_tags
                  THEN dropped \cup {Len(notified)}
                  ELSE dropped
    /\ sink_op' = "handleNotification"
    /\ UNCHANGED <<driver_vars, pure_vars, returned, read_tags, peeked>>

\* the property data
data ==
    /\ _have_new_data' = FlagAfterRead(_have_new_data)
    /\ returned' = <<_data>>
    /\ _data' = DataAfterRead(_data)
    /\ unread' = 0
    /\ reads' = IF reads < 2 THEN reads + 1 ELSE 2
    /\ read_tags' = read_tags \cup {_data.tag}
    /\ sink_op' = "data"
    /\ UNCHANGED <<driver_vars, pure_vars, notified, dropped, peeked>>

\* the property have_new_data
have_new_data ==
    /\ peeked' = <<_have_new_data>>
    /\ sink_op' = "have_new_data"
    /\ UNCHANGED <<driver_vars, pure_vars, _have_new_data, _data, notified,
                   unread, reads, returned, read_tags, dropped>>

SinkNext ==
    \/ handleNotification
    \/ data
    \/ have_new_data

SinkSpec == SinkOnlyInit /\ [][SinkNext]_vars

(***************************************************************************)
(* C14: have_new_data is true exactly when a notification came since the   *)
(* last read of data (false at first), and a read of data that follows a   *)
(* notification returns the payload of the latest notification and leaves  *)
(* have_new_data false.                                                    *)
(***************************************************************************)
C14_FlagAndLatestPayload ==
    /\ _have_new_data <=> unread >= 1
    /\ notified = <<>> => ~_have_new_data
    /\ (sink_op = "data" /\ notified # <<>>) =>
          /\ returned[1].bytes = notified[Len(notified)]
          /\ returned[1].tag = Len(notified)
          /\ ~_have_new_data
    /\ (sink_op = "have_new_data") => (peeked[1] <=> unread >= 1)

C14_Witness ==
    /\ sink_op = "data"
    /\ Len(notified) = 2
    /\ read_tags = {1, 2}
    /\ returned[1].bytes = notified[2]
    /\ ~_have_new_data

(***************************************************************************)
(* C15: the sink holds one frame and no queue: a notification that was not *)
(* read when the next one came is never returned by a read, and a read     *)
(* returns the frame of the latest notification only.                      *)
(***************************************************************************)
C15_NewestOverwrites ==
    /\ read_tags \cap dropped = {}
    /\ (returned # <<>> /\ returned[1].tag # 0) =>
          returned[1].bytes = notified[returned[1].tag]
    /\ (sink_op = "data" /\ notified # <<>>) =>
          returned[1] = [tag |-> Len(notified),
                         bytes |-> notified[Len(notified)]]

C15_Witness ==
    /\ sink_op = "data"
    /\ Len(notified) = 2
    /\ notified[1] # notified[2]
    /\ dropped = {1}
    /\ read_tags = {2}
    /\ returned[1].bytes = notified[2]

(***************************************************************************)
(* C16: a read of data with no notification since the read before returns  *)
(* what that read returned and changes neither the buffer nor the flag,    *)
(* which stays false; have_new_data changes neither and returns the flag.  *)
(***************************************************************************)
C16_ReadIdempotent ==
    [][/\ (data /\ returned # <<>> /\ unread = 0) =>
             /\ returned' = returned
             /\ _data' = _data
             /\ ~_have_new_data /\ ~_have_new_data'
       /\ have_new_data =>
             /\ _data' = _data
             /\ _have_new_data' = _have_new_data
             /\ peeked' = <<_have_new_data>>]_vars

C16_Witness ==
    /\ reads = 2
    /\ sink_op = "data"
    /\ notified # <<>>
    /\ returned = <<_data>>
    /\ _data.tag = Len(notified)
    /\ ~_have_new_data
    /\ peeked = <<FALSE>>

\* the operations of get, in the order of the template
GetTemplate == <<"connect", "send_request", "decode_response", "disconnect">>

C18_ConnectQueriesThenConnectsOnce ==
    \A c \in Callers :
       (call[c].op = "_connect" /\ mac # "dummy") =>
          LET s == call[c]
          IN  /\ s.tcalls \in {<<>>, <<"is_connected">>,
                               <<"is_connected", "connect">>}
              /\ s.pc = "c_enter" <=> s.tcalls = <<>>
              /\ s.pc = "c_connect" =>
                    (s.tcalls = <<"is_connected">> /\ ~s.linked)
              /\ Len(s.tcalls) = 2 => (~s.linked /\ Ended(c))
              /\ (Ended(c) /\ Len(s.tcalls) = 1) =>
                    (s.linked /\ s.outcome = "returned")
              /\ (Ended(c) /\ s.outcome = "returned") => connected
              /\ (Ended(c) /\ s.outcome = "raised") =>
                    /\ s.tcalls = <<"is_connected", "connect">>
                    /\ s.exc \in ExcKinds
                    /\ s.sleeps = (IF s.exc = "BleakError" THEN 1 ELSE 0)

C18_Witness ==
    \E c \in Callers :
       /\ call[c].op = "_connect"
       /\ mac # "dummy"
       /\ Ended(c)
       /\ call[c].outcome = "raised"
       /\ call[c].exc = "BleakError"
       /\ call[c].tcalls = <<"is_connected", "connect">>
       /\ ~connected

(***************************************************************************)
(* C20: _do_action with max_tries <= 0 runs neither the action nor the     *)
(* ensure-connected step, makes no call on the transport, and raises the   *)
(* TionException of the action at once.                                    *)
(***************************************************************************)
C20_NoTriesRaisesAtOnce ==
    \A c \in Callers :
       (InDoAction(c) /\ call[c].max_tries <= 0) =>
          LET s == call[c]
          IN  /\ s.attempts = 0
              /\ s.invoked = 0
              /\ s.nconnect = 0
              /\ s.tcalls = <<>>
              /\ s.pc \in {"w_loop", "done"}
              /\ Ended(c) =>
                    /\ RaisedTionException(c)
                    /\ s.expression = s.action

C20_Witness ==
    \E c \in Callers :
       /\ InDoAction(c)
       /\ call[c].max_tries = 0
       /\ call[c].action = "_try_write"
       /\ RaisedTionException(c)
       /\ call[c].attempts = 0
       /\ call[c].expression = "_try_write"

(***************************************************************************)
(* Two tasks on one driver.  The class has no lock, so the coroutines of   *)
(* the callers interleave at their awaits: a frame at "c_enter" is in      *)
(* await self.connection_status, at "c_connect" in await                   *)
(* self._btle.connect(), at "tw" in await self._btle.write_gatt_char(...). *)
(***************************************************************************)
\* the max_tries of the concurrent calls
ConcMaxTries == 2

ConcInit ==
    /\ mac = "aa:bb"
    /\ DriverInit
    /\ SinkInit
    /\ PureRest

\* await self._do_action(action, max_tries, request=request), whatever the
\* other callers are doing
ConcCall_do_action(c) ==
    /\ call[c].op = "idle"
    /\ \E a \in {"_connect", "_try_write"}, m \in 1..ConcMaxTries :
         Step(c, [Idle EXCEPT !.op = "_do_action", !.pc = "w_loop",
                              !.action = a, !.max_tries = m,
                              !.request = IF a = "_try_write"
                                          THEN <<1>> ELSE <<>>])
    /\ UNCHANGED <<pure_vars, sink_vars, mac, connected, fan_speed, assigned>>

ConcNext ==
    \/ \E c \in Callers : ConcCall_do_action(c)
    \/ \E c \in Callers : do_action(c)
    \/ \E c \in Callers : connect_status(c)
    \/ \E c \in Callers : connect_btle(c)
    \/ \E c \in Callers : try_write(c)
    \/ \E c \in Callers : Finish(c)

ConcSpec == ConcInit /\ [][ConcNext]_vars

(***************************************************************************)
(* C19: nothing in the driver excludes one caller while another runs: a    *)
(* caller that found the transport disconnected calls the transport's      *)
(* connect whatever the other caller does and whatever the transport has   *)
(* become since, and a caller whose write is due issues it while the       *)
(* connect of the other is under way.  So both callers can find the        *)
(* transport disconnected and both call connect, and the connect of one    *)
(* can be under way while the other writes.                                *)
(***************************************************************************)
C19_NoMutualExclusion ==
    \A c \in Callers :
       /\ call[c].pc = "c_enter" => ENABLED connect_status(c)
       /\ call[c].pc = "c_connect" =>
             (~call[c].linked /\ ENABLED connect_btle(c))
       /\ call[c].pc = "tw" => ENABLED try_write(c)

C19_Witness ==
    \E c, d \in Callers :
       /\ c # d
       /\ call[c].pc = "c_connect"
       /\ ~call[c].linked
       /\ call[c].tcalls = <<"is_connected">>
       /\ call[d].pc = "tw"
       /\ ~call[d].linked
       /\ call[d].tcalls = <<"is_connected", "connect">>
       /\ connected

====
